---- MODULE Spec2Model ----
(***************************************************************************)
(* The PCB analysis tool: the rule tables of analyze_pcb.py (PCBAnalyzer), *)
(* the keyword heuristic of cert_utils.py, the image-quality checker of    *)
(* utils/quality_utils.py, the option handling of app.py and the class     *)
(* files setup.py writes.                                                  *)
(*                                                                         *)
(* Text the code searches, lower-cases or sorts is a sequence of code      *)
(* points; text the code only compares for equality is a TLA+ string.      *)
(***************************************************************************)
EXTENDS Integers, Sequences, FiniteSets, TLC

VARIABLES
  files,                \* models/quality_check_classes.json, models/certification_classes.json, data/
  features,             \* the feature record handed to the rule functions
  quality_seen,         \* the calls of determine_quality_check_level on features so far: instance, result
  certs_seen,           \* the calls of determine_certifications on features so far: instance, result
  selected_option_int,  \* app.py: the integer the radio choice maps to
  image_bytes,          \* the image the user uploads, as the statistics analyze_image derives from it
  results,              \* the last run's analyze_pcb_image call: the instance built, the dict returned
  first_results,        \* the same of the first of the runs with this image and option in a row
  pcb_name,             \* cert_utils: the free-text name
  required,             \* cert_utils: the list required_certifications returned
  uploaded_file,        \* quality_utils: the uploaded file
  quality,              \* quality_utils: what check_image_quality returned for it
  checked,              \* quality_utils: how many of the uploads have been checked
  warnings_seen         \* quality_utils: every warning returned so far

vars == <<files, features, quality_seen, certs_seen, selected_option_int,
          image_bytes, results, first_results, pcb_name, required, uploaded_file, quality,
          checked, warnings_seen>>

\* ------------------------------------------------------------------ text

\* A string literal of the source as its code points.  The spaces of the ISO names of
\* cert_utils.py are no-break spaces (160) in the source.
Str(s) ==
  CASE
       s = "" -> <<>>
    [] s = "medical" -> <<109, 101, 100, 105, 99, 97, 108>>
    [] s = "aerospace" -> <<97, 101, 114, 111, 115, 112, 97, 99, 101>>
    [] s = "military" -> <<109, 105, 108, 105, 116, 97, 114, 121>>
    [] s = "automotive" -> <<97, 117, 116, 111, 109, 111, 116, 105, 118, 101>>
    [] s = "telecommunications" -> <<116, 101, 108, 101, 99, 111, 109, 109, 117, 110, 105, 99, 97, 116, 105, 111, 110, 115>>
    [] s = "industrial_control" -> <<105, 110, 100, 117, 115, 116, 114, 105, 97, 108, 95, 99, 111, 110, 116, 114, 111, 108>>
    [] s = "medical_wearable" -> <<109, 101, 100, 105, 99, 97, 108, 95, 119, 101, 97, 114, 97, 98, 108, 101>>
    [] s = "consumer_electronics" -> <<99, 111, 110, 115, 117, 109, 101, 114, 95, 101, 108, 101, 99, 116, 114, 111, 110, 105, 99, 115>>
    [] s = "computing" -> <<99, 111, 109, 112, 117, 116, 105, 110, 103>>
    [] s = "medical_critical" -> <<109, 101, 100, 105, 99, 97, 108, 95, 99, 114, 105, 116, 105, 99, 97, 108>>
    [] s = "Medical" -> <<77, 101, 100, 105, 99, 97, 108>>
    [] s = "MILITARY" -> <<77, 73, 76, 73, 84, 65, 82, 89>>
    [] s = "Automotive" -> <<65, 117, 116, 111, 109, 111, 116, 105, 118, 101>>
    [] s = "consumer" -> <<99, 111, 110, 115, 117, 109, 101, 114>>
    [] s = "electronics" -> <<101, 108, 101, 99, 116, 114, 111, 110, 105, 99, 115>>
    [] s = "industrial" -> <<105, 110, 100, 117, 115, 116, 114, 105, 97, 108>>
    [] s = "power" -> <<112, 111, 119, 101, 114>>
    [] s = "CE" -> <<67, 69>>
    [] s = "RoHS" -> <<82, 111, 72, 83>>
    [] s = "UL" -> <<85, 76>>
    [] s = "ISO 9001" -> <<73, 83, 79, 160, 57, 48, 48, 49>>
    [] s = "CE (Medical)" -> <<67, 69, 32, 40, 77, 101, 100, 105, 99, 97, 108, 41>>
    [] s = "ISO 13485" -> <<73, 83, 79, 160, 49, 51, 52, 56, 53>>
    [] s = "FDA" -> <<70, 68, 65>>
    [] s = "ISO / TS 16949" -> <<73, 83, 79, 160, 47, 160, 84, 83, 160, 49, 54, 57, 52, 57>>
    [] s = "1." -> <<49, 46>>
    [] s = "2." -> <<50, 46>>
    [] s = "3." -> <<51, 46>>
    [] s = "1. Check Certification & Quality Check" -> <<49, 46, 32, 67, 104, 101, 99, 107, 32, 67, 101, 114, 116, 105, 102, 105, 99, 97, 116, 105, 111, 110, 32, 38, 32, 81, 117, 97, 108, 105, 116, 121, 32, 67, 104, 101, 99, 107>>
    [] s = "2. Quality Check Required" -> <<50, 46, 32, 81, 117, 97, 108, 105, 116, 121, 32, 67, 104, 101, 99, 107, 32, 82, 101, 113, 117, 105, 114, 101, 100>>
    [] s = "3. Certification Needed" -> <<51, 46, 32, 67, 101, 114, 116, 105, 102, 105, 99, 97, 116, 105, 111, 110, 32, 78, 101, 101, 100, 101, 100>>
    [] s = "Power Supply" -> <<80, 111, 119, 101, 114, 32, 83, 117, 112, 112, 108, 121>>
    [] s = "MEDICAL monitor" -> <<77, 69, 68, 73, 67, 65, 76, 32, 109, 111, 110, 105, 116, 111, 114>>
    [] s = "Automotive ECU" -> <<65, 117, 116, 111, 109, 111, 116, 105, 118, 101, 32, 69, 67, 85>>
    [] s = "Consumer Medical" -> <<67, 111, 110, 115, 117, 109, 101, 114, 32, 77, 101, 100, 105, 99, 97, 108>>
    [] s = "industrial automotive power" -> <<105, 110, 100, 117, 115, 116, 114, 105, 97, 108, 32, 97, 117, 116, 111, 109, 111, 116, 105, 118, 101, 32, 112, 111, 119, 101, 114>>
    [] s = "sensor board" -> <<115, 101, 110, 115, 111, 114, 32, 98, 111, 97, 114, 100>>
    [] s = "sensor" -> <<115, 101, 110, 115, 111, 114>>
    [] s = "Electronics" -> <<69, 108, 101, 99, 116, 114, 111, 110, 105, 99, 115>>

\* str.lower() on ASCII text.
lower(s) == [i \in DOMAIN s |-> IF s[i] >= 65 /\ s[i] <= 90 THEN s[i] + 32 ELSE s[i]]

\* Python's `sub in s` on strings: sub occurs in s as a substring.
In(sub, s) == \E i \in 0..(Len(s) - Len(sub)) : SubSeq(s, i + 1, i + Len(sub)) = sub

\* dict.get(key, default)
Get(d, key, default) == IF key \in DOMAIN d THEN d[key] ELSE default

\* list.append(x) guarded by `if x not in list`
AppendNew(list, x) == IF \E i \in DOMAIN list : list[i] = x THEN list ELSE Append(list, x)

\* No value yet.
None == [kind |-> "none"]

\* ------------------------------------------------------------------ class files

DefaultQualityClasses == <<"basic", "enhanced", "comprehensive">>

DefaultCertClasses ==
  <<"CE", "RoHS", "UL", "FCC", "ISO9001", "IEC60950", "IATF16949", "ISO13485", "DO-254", "MIL-STD-883">>

DummyQualityClasses == <<"basic", "enhanced", "comprehensive">>

DummyCertClasses == <<"CE", "RoHS", "UL", "FCC", "ISO9001", "IEC60950", "IATF16949">>

Missing == [kind |-> "missing"]

\* A file that exists and that open or json.load fails on.
Invalid == [kind |-> "invalid"]

Json(value) == [kind |-> "json", value |-> value]

\* The states of the working directory: data/ exists or not, and each class file is
\* absent, unreadable, or holds the list setup.py writes.
FileStates ==
  [data : BOOLEAN,
   quality_check_classes : {Missing, Invalid, Json(DummyQualityClasses)},
   certification_classes : {Missing, Invalid, Json(DummyCertClasses)}]

\* PCBAnalyzer.__init__: the defaults, then each class file that exists replaces its
\* list; an exception ends the loading where it happens.
PCBAnalyzer(fs) ==
  LET q == fs.quality_check_classes
      c == fs.certification_classes
      quality_classes ==
        IF q.kind = "json" THEN q.value ELSE DefaultQualityClasses
      cert_classes ==
        IF q.kind # "invalid" /\ c.kind = "json" THEN c.value ELSE DefaultCertClasses
  IN [quality_classes |-> quality_classes, cert_classes |-> cert_classes]

\* ------------------------------------------------------------------ quality rules

\* The type rule without high_frequency.
upgrade_pcb_type_high_power_only(quality_level, pcb_type) ==
  IF pcb_type = "high_power" THEN "enhanced" ELSE quality_level

\* "Upgrade based on PCB type"
upgrade_pcb_type(quality_level, pcb_type) ==
  IF pcb_type \in {"high_frequency", "high_power"} THEN "enhanced" ELSE quality_level

\* "Upgrade based on component density"
upgrade_component_density(quality_level, component_density) ==
  IF component_density \in {"high", "very_high"} THEN "enhanced" ELSE quality_level

\* "Upgrade based on layer count": two ifs in a row
upgrade_layer_count(quality_level, layer_count) ==
  LET q1 == IF layer_count >= 4 THEN "enhanced" ELSE quality_level
  IN IF layer_count >= 6 THEN "comprehensive" ELSE q1

\* "Upgrade based on issues"
upgrade_issues(quality_level, issues) ==
  IF \E i \in DOMAIN issues : issues[i] # "none detected" THEN "enhanced" ELSE quality_level

\* "Special case upgrades to comprehensive"
upgrade_special_cases(quality_level, pcb_type, component_density, layer_count) ==
  LET q1 == IF pcb_type = "multilayer" /\ component_density \in {"high", "very_high"}
            THEN "comprehensive" ELSE quality_level
  IN IF pcb_type \in {"rigid_flex", "flexible"} /\ layer_count >= 2
     THEN "comprehensive" ELSE q1

upgrade_application_medical_only(quality_level, application) ==
  IF In(Str("medical"), application) THEN "comprehensive" ELSE quality_level

\* "Application-specific upgrades"
upgrade_application(quality_level, application) ==
  LET q1 == IF In(Str("medical"), application) THEN "comprehensive" ELSE quality_level
  IN IF In(Str("aerospace"), application) \/ In(Str("military"), application)
     THEN "comprehensive" ELSE q1

default_quality_level_standard == "standard"

\* "Default to basic quality check"
default_quality_level == "basic"

\* The cascade of determine_quality_check_level, each rule overwriting the level.
quality_level_rules(features_) ==
  LET pcb_type == features_["pcb_type"]
      component_density == features_["component_density"]
      layer_count == features_["estimated_layer_count"]
      issues == features_["issues"]
      application == Get(features_, "application", Str(""))
      q1 == upgrade_pcb_type(default_quality_level, pcb_type)
      q2 == upgrade_component_density(q1, component_density)
      q3 == upgrade_layer_count(q2, layer_count)
      q4 == upgrade_issues(q3, issues)
      q5 == upgrade_special_cases(q4, pcb_type, component_density, layer_count)
  IN upgrade_application(q5, application)

determine_quality_check_level(self, features_) == quality_level_rules(features_)

\* ------------------------------------------------------------------ certification rules

\* "Add certifications based on PCB type"
add_pcb_type_certifications(certifications, pcb_type) ==
  LET c1 == IF pcb_type = "high_frequency" THEN Append(certifications, "FCC") ELSE certifications
  IN IF pcb_type = "high_power" THEN Append(c1, "UL") ELSE c1

add_complexity_certifications_unguarded(certifications, component_density, layer_count) ==
  IF component_density \in {"high", "very_high"} \/ layer_count >= 4
  THEN Append(Append(certifications, "UL"), "ISO9001")
  ELSE certifications

\* "Add certifications based on complexity"
add_complexity_certifications(certifications, component_density, layer_count) ==
  IF component_density \in {"high", "very_high"} \/ layer_count >= 4
  THEN AppendNew(AppendNew(certifications, "UL"), "ISO9001")
  ELSE certifications

\* The special-type rule without rigid_flex.
add_special_type_certifications_flexible_only(certifications, pcb_type) ==
  IF pcb_type = "flexible" THEN AppendNew(certifications, "IEC60950") ELSE certifications

\* "Special PCB type certifications"
add_special_type_certifications(certifications, pcb_type) ==
  IF pcb_type \in {"flexible", "rigid_flex"} THEN AppendNew(certifications, "IEC60950")
  ELSE certifications

\* "Application-specific certifications", on the lower-cased application label
add_application_certifications(certifications, application) ==
  LET c1 == IF In(Str("medical"), application) THEN AppendNew(certifications, "ISO13485")
            ELSE certifications
      c2 == IF In(Str("automotive"), application) THEN AppendNew(c1, "IATF16949") ELSE c1
      c3 == IF In(Str("aerospace"), application) THEN AppendNew(c2, "DO-254") ELSE c2
  IN IF In(Str("military"), application) THEN AppendNew(c3, "MIL-STD-883") ELSE c3

\* "Base certifications for all PCBs"
base_certifications == <<"CE", "RoHS">>

\* The rule table of determine_certifications, each rule appending to the list.
certification_rules(features_) ==
  LET pcb_type == features_["pcb_type"]
      component_density == features_["component_density"]
      layer_count == features_["estimated_layer_count"]
      c1 == add_pcb_type_certifications(base_certifications, pcb_type)
      c2 == add_complexity_certifications(c1, component_density, layer_count)
      c3 == add_special_type_certifications(c2, pcb_type)
      application == lower(Get(features_, "application", Str("")))
  IN add_application_certifications(c3, application)

\* A determine_certifications that keeps only the classes the instance knows.
determine_certifications_known_classes(self, features_) ==
  SelectSeq(certification_rules(features_),
            LAMBDA c : \E i \in DOMAIN self.cert_classes : self.cert_classes[i] = c)

determine_certifications(self, features_) == certification_rules(features_)

\* ------------------------------------------------------------------ feature detection

\* n points of edge density, in the half points the model counts edge density in.
Points(n) == 2 * n

\* The exception a statement raised.
Raise(e) == [ok |-> FALSE, error |-> e]

\* The value a statement returned.
Return(v) == [ok |-> TRUE, value |-> v]

Max(S) == CHOOSE x \in S : \A y \in S : y <= x

\* np.std(mean_color) < 10 for three channel means: the population variance is
\* the sum of (3x - total)^2 over 27.
MeanColorStdBelow10(mean_color) ==
  LET total == mean_color[1] + mean_color[2] + mean_color[3]
      sq(x) == (3 * x - total) * (3 * x - total)
  IN sq(mean_color[1]) + sq(mean_color[2]) + sq(mean_color[3]) < 27 * 10 * 10

\* "Estimate PCB type based on color", for an RGB image
pcb_type_from_color(mean_color, edge_density) ==
  IF mean_color[2] > mean_color[1] /\ mean_color[2] > mean_color[3] THEN
    IF edge_density > Points(20) THEN "multilayer"
    ELSE IF edge_density < Points(10) THEN "single_sided" ELSE "double_sided"
  ELSE IF mean_color[3] > mean_color[1] /\ mean_color[3] > mean_color[2] THEN "high_frequency"
  ELSE IF mean_color[1] > mean_color[2] /\ mean_color[1] > mean_color[3] THEN "high_power"
  ELSE IF MeanColorStdBelow10(mean_color) THEN "flexible"
  ELSE "unknown"

\* "Grayscale image - assume standard PCB"
pcb_type_from_edges(edge_density) ==
  IF edge_density < Points(10) THEN "single_sided" ELSE "double_sided"

\* "Estimate component density"
estimate_component_density(edge_density) ==
  IF edge_density < Points(10) THEN "low"
  ELSE IF edge_density < Points(15) THEN "medium"
  ELSE IF edge_density < Points(20) THEN "high"
  ELSE "very_high"

\* "Estimate layer count based on edge complexity": max(1, min(8, int(edge_density / 5)))
estimate_layer_count(edge_density) ==
  LET n == edge_density \div Points(5)
      capped == IF n < 8 THEN n ELSE 8
  IN IF capped > 1 THEN capped ELSE 1

guess_application(pcb_type, component_density, layer_count, edge_density) ==
  IF pcb_type = "high_frequency" /\ component_density \in {"high", "very_high"}
  THEN Str("telecommunications")
  ELSE IF pcb_type = "high_power" /\ layer_count >= 4 THEN Str("industrial_control")
  ELSE IF pcb_type = "flexible" THEN
    (IF component_density \in {"high", "very_high"} THEN Str("medical_wearable")
     ELSE Str("consumer_electronics"))
  ELSE IF pcb_type = "rigid_flex" /\ layer_count >= 6 THEN Str("aerospace")
  ELSE IF pcb_type = "multilayer" /\ layer_count >= 6 /\ component_density = "very_high"
  THEN Str("computing")
  ELSE IF component_density = "very_high" /\ layer_count >= 6 THEN Str("medical_critical")
  ELSE IF component_density = "high" /\ layer_count >= 4 THEN Str("automotive")
  ELSE IF component_density = "medium" /\ layer_count >= 2 THEN Str("industrial_control")
  ELSE Str("consumer_electronics")

\* "Check for potential issues", once the color test has been decided
detect_issues(color_inconsistent, edge_density) ==
  LET i1 == IF color_inconsistent THEN <<"potential color inconsistency">> ELSE <<>>
      i2 == IF edge_density > Points(25)
            THEN Append(i1, "high complexity - careful inspection recommended") ELSE i1
  IN IF i2 # <<>> THEN i2 ELSE <<"none detected">>

\* detect_pcb_features on an opened image, given as the statistics of its resized
\* pixel array: one mean and one standard deviation per band, and the edge density.
\* A single-band image is a 2-D array, whose mean over both axes is a scalar: len()
\* of it raises.  With 2 or 4 bands `std_color > 60` is an array, whose truth value
\* raises.
detect_pcb_features(image) ==
  LET bands == image.bands
      ndim == IF Len(bands) = 1 THEN 2 ELSE 3
      mean_color == [i \in DOMAIN bands |-> bands[i].mean]
      std_color == [i \in DOMAIN bands |-> bands[i].std]
      edge_density == image.edge_density
      pcb_type == IF Len(mean_color) = 3 THEN pcb_type_from_color(mean_color, edge_density)
                  ELSE pcb_type_from_edges(edge_density)
      component_density == estimate_component_density(edge_density)
      layer_count == estimate_layer_count(edge_density)
      color_inconsistent == Max({std_color[i] : i \in DOMAIN std_color}) > 60
      application == guess_application(pcb_type, component_density, layer_count, edge_density)
  IN IF ndim = 2 THEN Raise("TypeError: object of type 'numpy.float64' has no len()")
     ELSE IF Len(std_color) # 3
     THEN Raise("ValueError: The truth value of an array with more than one element is ambiguous")
     ELSE Return([pcb_type |-> pcb_type,
                  component_density |-> component_density,
                  estimated_layer_count |-> layer_count,
                  edge_density |-> edge_density,
                  issues |-> detect_issues(color_inconsistent, edge_density),
                  application |-> application])

\* ------------------------------------------------------------------ result details

\* Formatted text is a sequence of pieces: literal text, or text as code points.
Text(t) == [text |-> t]

Chars(cs) == [chars |-> cs]

\* A list of literals, each as a one-piece text.
Lines(list) == [i \in DOMAIN list |-> <<Text(list[i])>>]

\* separator.join(list), the separator kept with the parts it joins.
Join(separator, list) == [separator |-> separator, parts |-> list]

IsLetter(c) == (c >= 65 /\ c <= 90) \/ (c >= 97 /\ c <= 122)

\* str.replace('_', ' ')
replace_underscores(s) == [i \in DOMAIN s |-> IF s[i] = 95 THEN 32 ELSE s[i]]

\* str.title() on ASCII text: a letter after a non-letter is upper-cased, any other
\* letter lower-cased.
title(s) ==
  [i \in DOMAIN s |->
     IF ~IsLetter(s[i]) THEN s[i]
     ELSE IF i = 1 \/ ~IsLetter(s[i - 1])
          THEN (IF s[i] >= 97 THEN s[i] - 32 ELSE s[i])
          ELSE (IF s[i] <= 90 THEN s[i] + 32 ELSE s[i])]

additional_checks(quality_level) ==
  CASE quality_level = "basic" ->
         <<"Basic continuity testing", "Simple functional testing">>
    [] quality_level = "enhanced" ->
         <<"Automated Optical Inspection (AOI)", "Complete continuity and isolation testing",
           "Functional testing with basic parameters">>
    [] quality_level = "comprehensive" ->
         <<"Automated Optical Inspection (AOI)", "Automated X-ray Inspection (AXI)",
           "In-Circuit Testing (ICT)", "Flying Probe Testing",
           "Functional testing with extended parameters", "Thermal stress testing">>
    [] OTHER -> <<>>

type_specific_checks(pcb_type) ==
  CASE pcb_type = "multilayer" ->
         <<"Layer-to-layer registration verification", "Buried/blind via inspection">>
    [] pcb_type \in {"flexible", "rigid_flex"} ->
         <<"Flexibility and bend testing", "Delamination inspection">>
    [] pcb_type = "high_frequency" ->
         <<"Impedance testing", "Signal integrity verification">>
    [] pcb_type = "high_power" ->
         <<"Copper thickness verification", "Thermal performance testing">>
    [] OTHER -> <<>>

app_specific_checks(application) ==
  (IF In(Str("medical"), application)
   THEN <<"Biocompatibility verification (if applicable)", "Extended reliability testing">>
   ELSE <<>>)
  \o (IF In(Str("automotive"), application)
      THEN <<"Vibration and shock testing", "Temperature cycling tests">> ELSE <<>>)
  \o (IF In(Str("aerospace"), application) \/ In(Str("military"), application)
      THEN <<"Extended environmental stress screening", "Conformal coating inspection",
             "100% functional testing">>
      ELSE <<>>)

issue_specific_checks(issues) ==
  LET found == SelectSeq(issues, LAMBDA issue : issue # "none detected")
  IN [i \in DOMAIN found |-> <<Text("Detailed inspection for "), Text(found[i])>>]

get_quality_check_details(quality_level, features_) ==
  LET base_checks ==
        <<"Visual inspection for obvious defects", "Dimensional verification",
          "Solder joint inspection">>
  IN Lines(base_checks)
     \o Lines(additional_checks(quality_level))
     \o Lines(type_specific_checks(features_["pcb_type"]))
     \o Lines(app_specific_checks(Get(features_, "application", Str(""))))
     \o issue_specific_checks(features_["issues"])

cert_description(cert) ==
  CASE cert = "CE" -> "European Conformity - Required for products sold in EU"
    [] cert = "RoHS" -> "Restriction of Hazardous Substances - Environmental standard"
    [] cert = "UL" -> "Underwriters Laboratories - Safety standard"
    [] cert = "FCC" -> "Federal Communications Commission - US EMC standard"
    [] cert = "ISO9001" -> "Quality Management System standard"
    [] cert = "IEC60950" -> "Information Technology Equipment Safety"
    [] cert = "IATF16949" -> "Automotive Quality Management System"
    [] cert = "ISO13485" -> "Medical Device Quality Management System"
    [] cert = "DO-254" -> "Design Assurance for Airborne Electronic Hardware"
    [] cert = "MIL-STD-883" ->
         "Military Standard for Test Methods and Procedures for Microelectronics"

cert_requirements(cert, pcb_type, application) ==
  CASE cert = "CE" ->
         <<"EMC Directive compliance", "RoHS compliance", "Safety testing",
           "Technical documentation">>
         \o (IF pcb_type = "high_frequency" THEN <<"RF emissions testing">> ELSE <<>>)
         \o (IF In(Str("medical"), application)
             THEN <<"Medical Device Directive compliance">> ELSE <<>>)
    [] cert = "RoHS" ->
         <<"No lead, mercury, cadmium, hexavalent chromium, PBBs, PBDEs",
           "Test reports for materials", "Declaration of Conformity">>
         \o (IF pcb_type \in {"flexible", "rigid_flex"}
             THEN <<"Special testing for flexible materials">> ELSE <<>>)
    [] cert = "UL" ->
         <<"Safety testing", "Flammability testing", "Regular factory audits",
           "UL mark application">>
         \o (IF pcb_type = "high_power"
             THEN <<"High-voltage clearance verification", "Thermal endurance testing">>
             ELSE <<>>)
    [] cert = "FCC" ->
         <<"EMI/EMC testing", "Radiated and conducted emissions testing",
           "Technical documentation", "FCC Declaration of Conformity or Certification">>
         \o (IF pcb_type = "high_frequency"
             THEN <<"Specific RF emissions profile testing">> ELSE <<>>)
    [] cert = "ISO9001" ->
         <<"Documented quality procedures", "Regular audits",
           "Continual improvement processes", "Management reviews">>
    [] cert = "IEC60950" ->
         <<"Electrical safety testing", "Thermal testing", "Mechanical strength testing",
           "Fire enclosure requirements">>
    [] cert = "IATF16949" ->
         <<"Automotive-specific quality processes", "Production part approval process (PPAP)",
           "Failure mode and effects analysis (FMEA)", "Statistical process control">>
    [] cert = "ISO13485" ->
         <<"Risk management", "Special process validation",
           "Regulatory compliance documentation", "Traceability requirements">>
    [] cert = "DO-254" ->
         <<"Formal design process documentation", "Requirements traceability",
           "Extensive verification and validation", "Configuration management">>
    [] cert = "MIL-STD-883" ->
         <<"Extended environmental testing", "Reliability demonstration",
           "Detailed failure analysis", "Stringent quality control procedures">>

\* The certifications get_certification_details has an entry for.
DetailedCertifications ==
  {"CE", "RoHS", "UL", "FCC", "ISO9001", "IEC60950", "IATF16949", "ISO13485", "DO-254",
   "MIL-STD-883"}

\* get_certification_details: a dict in the order of the certification list, here the
\* list of its items.
get_certification_details(certifications, features_) ==
  LET known == SelectSeq(certifications, LAMBDA cert : cert \in DetailedCertifications)
  IN [i \in DOMAIN known |->
        [cert |-> known[i],
         description |-> cert_description(known[i]),
         requirements |-> cert_requirements(known[i], features_["pcb_type"],
                                            Get(features_, "application", Str("")))]]

\* The lines of one certification: its description after a bullet (written "* "
\* here), "Requirements:", one line per requirement, an empty line.
certification_lines(item) ==
  <<<<Text("* "), Text(item.cert), Text(": "), Text(item.description)>>,
    <<Text("  Requirements:")>>>>
  \o [i \in DOMAIN item.requirements |-> <<Text("  - "), Text(item.requirements[i])>>]
  \o <<<<Text("")>>>>

RECURSIVE all_certification_lines(_)
all_certification_lines(items) ==
  IF items = <<>> THEN <<>>
  ELSE certification_lines(Head(items)) \o all_certification_lines(Tail(items))

format_details(results_, features_, analysis_option) ==
  LET feature_lines ==
        <<<<Text("PCB Type: "), [upper |-> features_["pcb_type"]]>>,
          <<Text("Component Density: "), [capitalize |-> features_["component_density"]]>>,
          <<Text("Estimated Layer Count: "), Text(ToString(features_["estimated_layer_count"]))>>>>
      application_lines ==
        IF "application" \in DOMAIN features_
        THEN <<<<Text("Likely Application: "),
                 Chars(title(replace_underscores(features_["application"])))>>>>
        ELSE <<>>
      issue_lines ==
        IF features_["issues"] # <<>> /\ features_["issues"][1] # "none detected"
        THEN <<<<Text("Detected Issues: "),
                 Join(", ", [i \in DOMAIN features_["issues"] |-> Text(features_["issues"][i])])>>>>
        ELSE <<<<Text("Detected Issues: None")>>>>
      quality_lines ==
        IF analysis_option \in {1, 2} /\ "quality_details" \in DOMAIN results_
        THEN <<<<Text("RECOMMENDED QUALITY CHECKS:")>>>>
             \o [i \in DOMAIN results_["quality_details"] |->
                   <<Text(ToString(i)), Text(". ")>> \o results_["quality_details"][i]]
             \o <<<<Text("\n")>>>>
        ELSE <<>>
      cert_lines ==
        IF analysis_option \in {1, 3} /\ "certification_details" \in DOMAIN results_
        THEN IF results_["certification_details"] # <<>>
             THEN <<<<Text("CERTIFICATION REQUIREMENTS:")>>>>
                  \o all_certification_lines(results_["certification_details"])
             ELSE <<<<Text("CERTIFICATION REQUIREMENTS: None specifically detected")>>>>
        ELSE <<>>
  IN Join("\n", feature_lines \o application_lines \o issue_lines \o <<<<Text("\n")>>>>
                \o quality_lines \o cert_lines)

\* ------------------------------------------------------------------ analyze_image

\* The dict with no keys.
EmptyDict == [k \in {} |-> None]

\* The try block of analyze_image: the results dict, or the exception a step raised.
\* Image.open raises on bytes that are no image.
analyze_image_try(self, image_bytes_, analysis_option) ==
  IF ~image_bytes_.decodable
  THEN Raise("UnidentifiedImageError: cannot identify image file")
  ELSE
    LET detected == detect_pcb_features(image_bytes_) IN
    IF ~detected.ok THEN detected
    ELSE
      LET features_ == detected.value
          quality_result == determine_quality_check_level(self, features_)
          results1 ==
            IF analysis_option \in {1, 2}
            THEN ("quality_check_required" :> Text(quality_result))
                 @@ ("quality_details" :> get_quality_check_details(quality_result, features_))
            ELSE EmptyDict
          predicted_certs == determine_certifications(self, features_)
          results2 ==
            IF analysis_option \in {1, 3}
            THEN results1
                 @@ ("certification_needed" :>
                       Join("; ", [i \in DOMAIN predicted_certs |-> Text(predicted_certs[i])]))
                 @@ ("certification_details" :>
                       get_certification_details(predicted_certs, features_))
            ELSE results1
      IN Return(results2 @@ ("details" :> format_details(results2, features_, analysis_option)))

\* What analyze_image returns when its try block raised e.
error_results(e) ==
  [quality_check_required |-> Text("Error"),
   certification_needed |-> Text("Error"),
   details |-> [format |-> "An error occurred during image processing: {e}", e |-> e]]

\* An analyze_image whose except clause is missing: the exception reaches the caller.
analyze_image_uncaught(self, image_bytes_, analysis_option) ==
  LET tried == analyze_image_try(self, image_bytes_, analysis_option)
  IN IF tried.ok THEN tried.value ELSE tried

\* analyze_image: the try block's results, or the error results on any exception.
analyze_image(self, image_bytes_, analysis_option) ==
  LET tried == analyze_image_try(self, image_bytes_, analysis_option)
  IN IF tried.ok THEN tried.value ELSE error_results(tried.error)

\* An analyze_pcb_image for which a class file that does not load is an error of the
\* analysis.
analyze_pcb_image_load_checked(fs, image_bytes_, analysis_option) ==
  IF Invalid \in {fs.quality_check_classes, fs.certification_classes}
  THEN error_results("JSONDecodeError: Expecting value")
  ELSE analyze_image(PCBAnalyzer(fs), image_bytes_, analysis_option)

\* analyze_pcb_image: a new PCBAnalyzer, built from the class files as they are, and
\* its analyze_image.
analyze_pcb_image(fs, image_bytes_, analysis_option) ==
  analyze_image(PCBAnalyzer(fs), image_bytes_, analysis_option)

\* ------------------------------------------------------------------ setup.py

\* os.makedirs("data"), "models", "dataset"
create_directory_structure(fs) == [fs EXCEPT !.data = TRUE]

create_dummy_models(fs) ==
  [fs EXCEPT !.quality_check_classes = Json(DummyQualityClasses),
             !.certification_classes = Json(DummyCertClasses)]

\* The four steps app.py and setup.py's main run; the dataset and the dummy images
\* are files nothing here reads.
run_setup(fs) == create_dummy_models(create_directory_structure(fs))

\* ------------------------------------------------------------------ app.py

RadioOptions ==
  <<Str("1. Check Certification & Quality Check"), Str("2. Quality Check Required"),
    Str("3. Certification Needed")>>

\* The mapping with "1:" searched for in place of "1.".
option_int_colon(analysis_option) ==
  IF In(<<49, 58>>, analysis_option) THEN 1
  ELSE IF In(<<50, 58>>, analysis_option) THEN 2
  ELSE IF In(<<51, 58>>, analysis_option) THEN 3
  ELSE 0

\* "Convert string option to integer for the function"
option_int(analysis_option) ==
  IF In(Str("1."), analysis_option) THEN 1
  ELSE IF In(Str("2."), analysis_option) THEN 2
  ELSE IF In(Str("3."), analysis_option) THEN 3
  ELSE 0

\* The keys app.py reads from the results for an option.
KeysRead(option) ==
  (IF option \in {1, 2} THEN {"quality_check_required"} ELSE {})
  \cup (IF option \in {1, 3} THEN {"certification_needed"} ELSE {})
  \cup {"details"}

\* ------------------------------------------------------------------ images

MaxEdgeSteps == 18

\* Edge densities from 0 in steps of 2.5 points: every interval the thresholds
\* 5, 10, ..., 40 cut, the thresholds themselves, and one value the cap of 8 layers cuts.
EdgeDensities == {5 * k : k \in 0..MaxEdgeSteps}

\* A band of the pixel array: its mean and its standard deviation.
Band(mean, std) == [mean |-> mean, std |-> std]

\* Band statistics for every branch of the color test: green (with and without a
\* deviation above 60), blue and red dominant, no dominant band with close means, no
\* dominant band with distant means.
RgbBands ==
  {<<Band(100, 20), Band(110, s), Band(100, 20)>> : s \in {20, 70}}
  \cup {<<Band(100, 20), Band(100, 20), Band(110, 20)>>,
        <<Band(110, 20), Band(100, 20), Band(100, 20)>>,
        <<Band(110, 20), Band(110, 20), Band(100, 20)>>,
        <<Band(250, 20), Band(250, 20), Band(100, 20)>>}

\* An opaque alpha band.
AlphaBand == Band(255, 0)

BandsOfMode(mode) ==
  CASE mode = "L" -> {<<Band(100, s)>> : s \in {20, 70}}
    [] mode = "RGB" -> RgbBands
    [] mode = "RGBA" ->
         {<<Band(100, 20), Band(110, 20), Band(100, 20), AlphaBand>>}

Modes == {"L", "RGB", "RGBA"}

NotAnImage == [decodable |-> FALSE]

\* The uploads: bytes that are no image, and images of each mode.
Images ==
  {NotAnImage}
  \cup UNION {[decodable : {TRUE}, mode : {mode}, bands : BandsOfMode(mode),
               edge_density : EdgeDensities] : mode \in Modes}

\* ------------------------------------------------------------------ cert_utils.py

\* a < b in Python's order of strings: by code point, a proper prefix first.
StrLess(a, b) ==
  \E i \in 1..(Len(b)) :
    /\ \A j \in 1..(i - 1) : j <= Len(a) /\ a[j] = b[j]
    /\ i > Len(a) \/ a[i] < b[i]

\* sorted(S) for a set of strings
RECURSIVE sorted(_)
sorted(S) ==
  IF S = {} THEN <<>>
  ELSE LET least == CHOOSE x \in S : \A y \in S : y = x \/ StrLess(x, y)
       IN <<least>> \o sorted(S \ {least})

\* set(list)
set(list) == {list[i] : i \in DOMAIN list}

ConsumerCertifications == <<Str("CE"), Str("RoHS"), Str("UL")>>

IndustrialCertifications == <<Str("CE"), Str("RoHS"), Str("UL"), Str("ISO 9001")>>

MedicalCertifications == <<Str("CE (Medical)"), Str("ISO 13485"), Str("FDA"), Str("RoHS")>>

AutomotiveCertifications == <<Str("ISO / TS 16949"), Str("CE"), Str("RoHS")>>

GeneralCertifications == <<Str("CE"), Str("RoHS")>>

\* The keyword tests of required_certifications, on the name it is given as is.
matched_certifications(name) ==
  (IF In(Str("consumer"), name) \/ In(Str("electronics"), name)
   THEN ConsumerCertifications ELSE <<>>)
  \o (IF In(Str("industrial"), name) \/ In(Str("power"), name)
      THEN IndustrialCertifications ELSE <<>>)
  \o (IF In(Str("medical"), name) THEN MedicalCertifications ELSE <<>>)
  \o (IF In(Str("automotive"), name) THEN AutomotiveCertifications ELSE <<>>)

\* A required_certifications that searches the name without lower-casing it.
required_certifications_case_sensitive(pcb_name_) ==
  LET required_ == matched_certifications(pcb_name_)
  IN sorted(set(IF required_ = <<>> THEN GeneralCertifications ELSE required_))

required_certifications(pcb_name_) ==
  LET name_lower == lower(pcb_name_)
      required_ == matched_certifications(name_lower)
  IN sorted(set(IF required_ = <<>> THEN GeneralCertifications ELSE required_))

\* ------------------------------------------------------------------ utils/quality_utils.py

UnsupportedFormatWarning == "Unsupported format. Use PNG or JPEG."

\* The warnings are compared for equality only.  The source writes 800x600 with a
\* multiplication sign and "<5 MB" with a narrow no-break space.
LowResolutionWarning == "Low resolution: should be at least 800x600."

LargeFileWarning == "File size large: optimize to <5 MB."

\* round(n / d, 2) in hundredths, for a quotient the float holds exactly: to the
\* nearest hundredth, a tie to the even one.
round2(n, d) ==
  LET q == (100 * n) \div d
      r == (100 * n) % d
  IN IF 2 * r > d \/ (2 * r = d /\ q % 2 = 1) THEN q + 1 ELSE q

\* check_image_quality on an upload given as what Image.open and tell() report: the
\* format, the size in pixels and the size in bytes.  Returns the image and the result
\* dict; size_kb and aspect_ratio are in hundredths.
check_image_quality(uploaded_file_) ==
  LET format == uploaded_file_.format
      width == uploaded_file_.width
      height == uploaded_file_.height
      w1 == IF format \notin {"PNG", "JPEG", "JPG"} THEN <<UnsupportedFormatWarning>> ELSE <<>>
      w2 == IF width < 800 \/ height < 600 THEN Append(w1, LowResolutionWarning) ELSE w1
      \* size_kb > 5000, with size_kb = bytes / 1024
      w3 == IF uploaded_file_.bytes > 5000 * 1024 THEN Append(w2, LargeFileWarning) ELSE w2
  IN [img |-> uploaded_file_,
      result |-> [format |-> format, width |-> width, height |-> height,
                  size_kb |-> round2(uploaded_file_.bytes, 1024),
                  aspect_ratio |-> round2(width, height),
                  warnings |-> w3]]

\* ------------------------------------------------------------------ feature records

MaxLayerCount == 6

MaxIssues == 1

PcbTypes ==
  {"unknown", "single_sided", "double_sided", "multilayer", "high_frequency", "high_power",
   "flexible", "rigid_flex"}

ComponentDensities == {"low", "medium", "high", "very_high"}

IssueNames ==
  {"none detected", "potential color inconsistency",
   "high complexity - careful inspection recommended"}

IssueLists == UNION {[1..n -> IssueNames] : n \in 0..MaxIssues}

\* Application labels: those guess_application returns that the rules tell apart, and
\* labels in other letter cases.
ApplicationLabels ==
  {Str("consumer_electronics"), Str("medical_wearable"), Str("automotive"),
   Str("aerospace"), Str("military"), Str("Medical"), Str("MILITARY")}

\* Every feature record over the domains above, with and without an application.
FeatureRecords ==
  [pcb_type : PcbTypes, component_density : ComponentDensities,
   estimated_layer_count : 1..MaxLayerCount, issues : IssueLists,
   application : ApplicationLabels]
  \cup
  [pcb_type : PcbTypes, component_density : ComponentDensities,
   estimated_layer_count : 1..MaxLayerCount, issues : IssueLists]

\* ------------------------------------------------------------------ the rule functions, called directly

Unused == [kind |-> "unused"]

NoFiles == [data |-> FALSE, quality_check_classes |-> Missing, certification_classes |-> Missing]

appVars == <<files, selected_option_int, image_bytes, results, first_results>>
rulesVars == <<features, quality_seen, certs_seen>>
certVars == <<pcb_name, required>>
qualityVars == <<uploaded_file, quality, checked, warnings_seen>>

InitRules ==
  /\ files = NoFiles
  /\ features \in FeatureRecords
  /\ quality_seen = {}
  /\ certs_seen = {}
  /\ selected_option_int = 1
  /\ image_bytes = Unused
  /\ results = Unused
  /\ first_results = Unused
  /\ pcb_name = Unused
  /\ required = Unused
  /\ uploaded_file = Unused
  /\ quality = Unused
  /\ checked = 0
  /\ warnings_seen = {}

\* The instances PCBAnalyzer() can be, over every state of the class files.
Analyzers == {PCBAnalyzer(fs) : fs \in FileStates}

\* determine_quality_check_level(features) on some instance
DetermineQuality ==
  /\ \E self \in Analyzers :
       quality_seen' = quality_seen \cup
         {[self |-> self, result |-> determine_quality_check_level(self, features)]}
  /\ UNCHANGED <<features, certs_seen, appVars, certVars, qualityVars>>

\* determine_certifications(features) on some instance
DetermineCertifications ==
  /\ \E self \in Analyzers :
       certs_seen' = certs_seen \cup
         {[self |-> self, result |-> determine_certifications(self, features)]}
  /\ UNCHANGED <<features, quality_seen, appVars, certVars, qualityVars>>

NextRules == DetermineQuality \/ DetermineCertifications

SpecRules == InitRules /\ [][NextRules]_vars

\* ------------------------------------------------------------------ claims on the rule functions

NoDuplicates(list) == \A i, j \in DOMAIN list : list[i] = list[j] => i = j

MentionsCriticalApplication(features_) ==
  LET application == Get(features_, "application", Str(""))
  IN \/ In(Str("medical"), application)
     \/ In(Str("aerospace"), application)
     \/ In(Str("military"), application)

HasIssues(features_) ==
  \E i \in DOMAIN features_["issues"] : features_["issues"][i] # "none detected"

\* C1: determine_quality_check_level and determine_certifications are functions of the
\* feature record alone: any two calls on the same record, on whatever instances,
\* return the same level and the same certification list in the same order.
C1_Deterministic ==
  /\ \A a, b \in quality_seen : a.result = b.result
  /\ \A a, b \in certs_seen : a.result = b.result

\* Both functions were called on two instances that differ, on a record whose
\* certifications go beyond the classes one of the instances knows.
C1_Witness ==
  /\ \E a, b \in quality_seen : a.self # b.self
  /\ \E a, b \in certs_seen :
       /\ a.self # b.self
       /\ \E i \in DOMAIN a.result : a.result[i] = "ISO13485"

\* C5: determine_quality_check_level returns one of basic, enhanced, comprehensive.
C5_QualityLevelInClasses ==
  \A c \in quality_seen : c.result \in {"basic", "enhanced", "comprehensive"}

\* A record no rule upgrades was evaluated: the default is returned.
C5_Witness ==
  /\ \E c \in quality_seen : c.result = "basic"
  /\ features["pcb_type"] = "unknown"

\* C6: the list determine_certifications returns starts with CE then RoHS and holds
\* no certification twice.
C6_BaseFirstNoDuplicates ==
  \A c \in certs_seen :
    /\ Len(c.result) >= 2
    /\ c.result[1] = "CE"
    /\ c.result[2] = "RoHS"
    /\ NoDuplicates(c.result)

\* A high-power, dense board was evaluated: UL is due by two rules.
C6_Witness ==
  /\ features["pcb_type"] = "high_power"
  /\ features["component_density"] = "very_high"
  /\ \E c \in certs_seen : c.result = <<"CE", "RoHS", "UL", "ISO9001">>

\* C9: a record whose application label contains medical, aerospace or military gets
\* comprehensive, whatever its type, density, layer count and issues.
C9_CriticalApplicationComprehensive ==
  MentionsCriticalApplication(features) =>
    \A c \in quality_seen : c.result = "comprehensive"

\* A simple single-layer military board with a detected issue was evaluated.
C9_Witness ==
  /\ "application" \in DOMAIN features
  /\ features["application"] = Str("military")
  /\ features["pcb_type"] = "single_sided"
  /\ features["component_density"] = "low"
  /\ features["estimated_layer_count"] = 1
  /\ HasIssues(features)
  /\ quality_seen # {}

\* C10: a record with estimated_layer_count >= 6 gets comprehensive, including when
\* issues were detected.
C10_SixLayersComprehensive ==
  features["estimated_layer_count"] >= 6 =>
    \A c \in quality_seen : c.result = "comprehensive"

\* Some condition of a quality rule holds on the record, as the rules test them.
SomeQualityRuleHolds(features_) ==
  \/ features_["pcb_type"] \in {"high_frequency", "high_power"}
  \/ features_["component_density"] \in {"high", "very_high"}
  \/ features_["estimated_layer_count"] >= 4
  \/ HasIssues(features_)
  \/ features_["pcb_type"] \in {"flexible", "rigid_flex"}
       /\ features_["estimated_layer_count"] >= 2
  \/ MentionsCriticalApplication(features_)

\* C11: determine_quality_check_level returns basic exactly when no rule condition
\* holds (type, density, layer count >= 4, an issue other than "none detected",
\* flexible or rigid_flex with >= 2 layers, a medical, aerospace or military
\* application), and enhanced or comprehensive whenever one of them holds.
C11_BasicIffNoRuleHolds ==
  \A c \in quality_seen :
    /\ c.result = "basic" <=> ~SomeQualityRuleHolds(features)
    /\ SomeQualityRuleHolds(features) => c.result \in {"enhanced", "comprehensive"}

\* A record on which a single condition holds was evaluated: a high-frequency board,
\* sparse, two layers, no issue, no application.
C11_Witness ==
  /\ features["pcb_type"] = "high_frequency"
  /\ features["component_density"] = "low"
  /\ features["estimated_layer_count"] = 2
  /\ ~HasIssues(features)
  /\ "application" \notin DOMAIN features
  /\ \E c \in quality_seen : c.result = "enhanced"

\* The board is complex: dense, or of four layers or more.
IsComplex(features_) ==
  \/ features_["component_density"] \in {"high", "very_high"}
  \/ features_["estimated_layer_count"] >= 4

\* The certifications the rule table asks for on a record, as a set.
CertificationTable(features_) ==
  LET application == lower(Get(features_, "application", Str("")))
  IN {"CE", "RoHS"}
     \cup (IF features_["pcb_type"] = "high_frequency" THEN {"FCC"} ELSE {})
     \cup (IF features_["pcb_type"] = "high_power" \/ IsComplex(features_)
           THEN {"UL"} ELSE {})
     \cup (IF IsComplex(features_) THEN {"ISO9001"} ELSE {})
     \cup (IF features_["pcb_type"] \in {"flexible", "rigid_flex"} THEN {"IEC60950"} ELSE {})
     \cup (IF In(Str("medical"), application) THEN {"ISO13485"} ELSE {})
     \cup (IF In(Str("automotive"), application) THEN {"IATF16949"} ELSE {})
     \cup (IF In(Str("aerospace"), application) THEN {"DO-254"} ELSE {})
     \cup (IF In(Str("military"), application) THEN {"MIL-STD-883"} ELSE {})

\* C12: the certifications determine_certifications returns are exactly those of its
\* rule table: CE and RoHS, FCC iff high_frequency, UL iff high_power or complex,
\* ISO9001 iff complex, IEC60950 iff flexible or rigid_flex, and ISO13485,
\* IATF16949, DO-254, MIL-STD-883 iff the lower-cased application contains medical,
\* automotive, aerospace, military; nothing else.
C12_CertificationTableExact ==
  \A c \in certs_seen : set(c.result) = CertificationTable(features)

\* A dense rigid-flex board with an upper-case application label was evaluated.
C12_Witness ==
  /\ features["pcb_type"] = "rigid_flex"
  /\ features["component_density"] = "high"
  /\ "application" \in DOMAIN features
  /\ features["application"] = Str("MILITARY")
  /\ \E c \in certs_seen :
       c.result = <<"CE", "RoHS", "UL", "ISO9001", "IEC60950", "MIL-STD-883">>

\* ------------------------------------------------------------------ the app

\* The state before the first run of app.py in a fresh checkout: no data/, no class
\* files, the radio at its default (index 0), and the image the user has at hand.
InitApp ==
  /\ files = NoFiles
  /\ selected_option_int = option_int(RadioOptions[1])
  /\ image_bytes \in Images
  /\ results = None
  /\ first_results = None
  /\ features = Unused
  /\ quality_seen = {}
  /\ certs_seen = {}
  /\ pcb_name = Unused
  /\ required = Unused
  /\ uploaded_file = Unused
  /\ quality = Unused
  /\ checked = 0
  /\ warnings_seen = {}

\* One run of the app.py script: setup if data/ is missing, the radio choice mapped to
\* its integer, and the analysis of the uploaded file when there is one.  results keeps
\* the instance analyze_pcb_image built and the dict it returned; first_results keeps
\* those of the first of the runs with this option in a row.
AppRun ==
  \E choice \in DOMAIN RadioOptions, uploaded \in BOOLEAN :
    LET fs == IF ~files.data THEN run_setup(files) ELSE files
        option == option_int(RadioOptions[choice])
    IN /\ files' = fs
       /\ selected_option_int' = option
       /\ results' =
            IF uploaded
            THEN [self |-> PCBAnalyzer(fs),
                  returned |-> analyze_pcb_image(fs, image_bytes, option)]
            ELSE None
       /\ first_results' =
            IF uploaded /\ first_results # None /\ option = selected_option_int
            THEN first_results
            ELSE results'
       /\ UNCHANGED <<image_bytes, rulesVars, certVars, qualityVars>>

\* python setup.py
RunSetup ==
  /\ files' = run_setup(files)
  /\ UNCHANGED <<selected_option_int, image_bytes, results, first_results,
                 rulesVars, certVars, qualityVars>>

\* setup.create_dummy_models() alone
CreateDummyModels ==
  /\ files' = create_dummy_models(files)
  /\ UNCHANGED <<selected_option_int, image_bytes, results, first_results,
                 rulesVars, certVars, qualityVars>>

\* Someone removes or damages a class file.
ChangeClassFile ==
  /\ \E c \in {Missing, Invalid} :
       \/ files' = [files EXCEPT !.quality_check_classes = c]
       \/ files' = [files EXCEPT !.certification_classes = c]
  /\ UNCHANGED <<selected_option_int, image_bytes, results, first_results,
                 rulesVars, certVars, qualityVars>>

NextApp == AppRun \/ RunSetup \/ CreateDummyModels \/ ChangeClassFile

SpecApp == InitApp /\ [][NextApp]_vars

\* ------------------------------------------------------------------ claims on the analysis

\* The try block of the last run's analyze_image call.
LastTry == analyze_image_try(results.self, image_bytes, selected_option_int)

CertificationNeeded(returned, cert) ==
  /\ "certification_needed" \in DOMAIN returned
  /\ "parts" \in DOMAIN returned["certification_needed"]
  /\ \E i \in DOMAIN returned["certification_needed"].parts :
       returned["certification_needed"].parts[i] = Text(cert)

\* C2: the analysis is stateless: runs on the same image and option return the same
\* dict, whatever setup steps, class-file changes and runs came between them.
C2_Stateless ==
  (results # None /\ first_results # None) => results.returned = first_results.returned

\* The image was analysed again by an instance whose class lists differ from those of
\* the first run, and the result names a certification one of the two does not know.
C2_Witness ==
  /\ results # None
  /\ first_results # None
  /\ results.self # first_results.self
  /\ CertificationNeeded(results.returned, "ISO13485")

\* C3: analyze_image never raises: when a step of its try block fails it returns the
\* error results, with the message in details; so every key app.py reads for the
\* selected option is in the dict, after a success and after a failure.
C3_NeverRaises ==
  results # None =>
    LET returned == results.returned IN
      /\ "error" \notin DOMAIN returned
      /\ ~LastTry.ok =>
           /\ {"quality_check_required", "certification_needed", "details"}
                \subseteq DOMAIN returned
           /\ returned["quality_check_required"] = Text("Error")
           /\ returned["certification_needed"] = Text("Error")
           /\ returned["details"].e = LastTry.error
      /\ KeysRead(selected_option_int) \subseteq DOMAIN returned

\* An image that opens and whose analysis fails was analysed with option 3.
C3_Witness ==
  /\ results # None
  /\ image_bytes.decodable
  /\ ~LastTry.ok
  /\ selected_option_int = 3
  /\ results.returned = error_results(LastTry.error)

\* C4: after a successful analysis the dict holds the quality keys exactly for
\* options 1 and 2, the certification keys exactly for options 1 and 3, and details
\* always; every radio option maps to 1, 2 or 3, never to the fallback 0.
C4_OptionSelectsOutputs ==
  /\ \A i \in DOMAIN RadioOptions : option_int(RadioOptions[i]) \in {1, 2, 3}
  /\ selected_option_int \in {1, 2, 3}
  /\ (results # None /\ LastTry.ok) =>
       LET keys == DOMAIN results.returned IN
         /\ "quality_check_required" \in keys <=> selected_option_int \in {1, 2}
         /\ "quality_details" \in keys <=> selected_option_int \in {1, 2}
         /\ "certification_needed" \in keys <=> selected_option_int \in {1, 3}
         /\ "certification_details" \in keys <=> selected_option_int \in {1, 3}
         /\ "details" \in keys

\* An image was analysed successfully with option 3: no quality keys.
C4_Witness ==
  /\ results # None
  /\ LastTry.ok
  /\ selected_option_int = 3
  /\ DOMAIN results.returned = {"certification_needed", "certification_details", "details"}

\* C13: an image whose pixel data is not 3-channel is treated as a standard PCB:
\* analyze_image returns a non-error result, and the pcb_type detected is
\* single_sided for an edge density below 10 and double_sided otherwise.
C13_GrayscaleStandardPcb ==
  (results # None /\ image_bytes.decodable /\ Len(image_bytes.bands) # 3) =>
    /\ LastTry.ok
    /\ results.returned # error_results(LastTry.error)
    /\ detect_pcb_features(image_bytes).ok
    /\ detect_pcb_features(image_bytes).value["pcb_type"] =
         (IF image_bytes.edge_density < Points(10) THEN "single_sided" ELSE "double_sided")

\* ------------------------------------------------------------------ the keyword heuristic, called directly

MaxNameWords == 2

\* str.upper() on ASCII text.
upper(s) == [i \in DOMAIN s |-> IF s[i] >= 97 /\ s[i] <= 122 THEN s[i] - 32 ELSE s[i]]

\* The first letter upper-cased.
Capitalized(s) == [i \in DOMAIN s |-> IF i = 1 THEN upper(s)[i] ELSE s[i]]

Keywords ==
  {Str("consumer"), Str("electronics"), Str("industrial"), Str("power"), Str("medical"),
   Str("automotive")}

\* The words of a name: each keyword in lower case, in upper case and capitalized, and
\* a word that is no keyword.
NameWords == UNION {{k, upper(k), Capitalized(k)} : k \in Keywords} \cup {Str("sensor")}

\* The names of exactly n words, separated by a space.
RECURSIVE NamesOf(_)
NamesOf(n) ==
  IF n = 0 THEN {<<>>}
  ELSE {IF prefix = <<>> THEN word ELSE prefix \o <<32>> \o word :
          prefix \in NamesOf(n - 1), word \in NameWords}

PcbNames == UNION {NamesOf(n) : n \in 0..MaxNameWords}

InitCertUtils ==
  /\ pcb_name \in PcbNames
  /\ required = None
  /\ files = NoFiles
  /\ features = Unused
  /\ quality_seen = {}
  /\ certs_seen = {}
  /\ selected_option_int = 1
  /\ image_bytes = Unused
  /\ results = Unused
  /\ first_results = Unused
  /\ uploaded_file = Unused
  /\ quality = Unused
  /\ checked = 0
  /\ warnings_seen = {}

RequiredCertifications ==
  /\ required' = required_certifications(pcb_name)
  /\ UNCHANGED <<pcb_name, files, rulesVars, selected_option_int, image_bytes, results,
                 first_results, qualityVars>>

NextCertUtils == RequiredCertifications

SpecCertUtils == InitCertUtils /\ [][NextCertUtils]_vars

\* Two characters that are equal, or the same letter in two cases.
SameLetter(c, d) ==
  \/ c = d
  \/ IsLetter(c) /\ IsLetter(d) /\ (c - d = 32 \/ d - c = 32)

\* keyword occurs in name, letter case ignored.
OccursIgnoringCase(keyword, name) ==
  \E i \in 0..(Len(name) - Len(keyword)) :
    \A j \in 1..Len(keyword) : SameLetter(keyword[j], name[i + j])

\* The keyword classes and the certification group of each.
KeywordClasses ==
  {[keywords |-> {Str("consumer"), Str("electronics")},
    group |-> {Str("CE"), Str("RoHS"), Str("UL")}],
   [keywords |-> {Str("industrial"), Str("power")},
    group |-> {Str("CE"), Str("RoHS"), Str("UL"), Str("ISO 9001")}],
   [keywords |-> {Str("medical")},
    group |-> {Str("CE (Medical)"), Str("ISO 13485"), Str("FDA"), Str("RoHS")}],
   [keywords |-> {Str("automotive")},
    group |-> {Str("ISO / TS 16949"), Str("CE"), Str("RoHS")}]}

MatchedClasses(name) ==
  {c \in KeywordClasses : \E k \in c.keywords : OccursIgnoringCase(k, name)}

\* C7: required_certifications matches keywords whatever their letter case and
\* returns the sorted, duplicate-free union of the groups of the matched classes, or
\* exactly CE, RoHS when no keyword matches; it never returns an empty list.
C7_SortedUnionOfMatchedGroups ==
  required # None =>
    /\ set(required) =
         IF MatchedClasses(pcb_name) = {} THEN {Str("CE"), Str("RoHS")}
         ELSE UNION {c.group : c \in MatchedClasses(pcb_name)}
    /\ \A i, j \in DOMAIN required : i < j => StrLess(required[i], required[j])
    /\ MatchedClasses(pcb_name) = {} => required = <<Str("CE"), Str("RoHS")>>
    /\ required # <<>>

\* A name with one keyword in upper case and one capitalized was looked up: the
\* groups of both classes, sorted.
C7_Witness ==
  /\ required # None
  /\ pcb_name = upper(Str("medical")) \o <<32>> \o Capitalized(Str("automotive"))
  /\ required = <<Str("CE"), Str("CE (Medical)"), Str("FDA"), Str("ISO / TS 16949"),
                  Str("ISO 13485"), Str("RoHS")>>

\* ------------------------------------------------------------------ the image-quality checker, on every upload

UploadFormats == <<"PNG", "JPEG", "BMP">>

UploadWidths == <<799, 800, 8000>>

UploadHeights == <<599, 600, 4000>>

\* Sizes in bytes: small, 5000 KB, one byte more, larger.
UploadSizes == <<100 * 1024, 5000 * 1024, 5000 * 1024 + 1, 6000 * 1024>>

NumUploads == Len(UploadFormats) * Len(UploadWidths) * Len(UploadHeights) * Len(UploadSizes)

\* The i-th upload, 0 <= i < NumUploads: every format, width, height and size once.
Upload(i) ==
  LET f == i % Len(UploadFormats)
      w == (i \div Len(UploadFormats)) % Len(UploadWidths)
      h == (i \div (Len(UploadFormats) * Len(UploadWidths))) % Len(UploadHeights)
      b == i \div (Len(UploadFormats) * Len(UploadWidths) * Len(UploadHeights))
  IN [format |-> UploadFormats[f + 1], width |-> UploadWidths[w + 1],
      height |-> UploadHeights[h + 1], bytes |-> UploadSizes[b + 1]]

InitQuality ==
  /\ uploaded_file = None
  /\ quality = None
  /\ checked = 0
  /\ warnings_seen = {}
  /\ pcb_name = Unused
  /\ required = Unused
  /\ files = NoFiles
  /\ features = Unused
  /\ quality_seen = {}
  /\ certs_seen = {}
  /\ selected_option_int = 1
  /\ image_bytes = Unused
  /\ results = Unused
  /\ first_results = Unused

\* check_image_quality on the next upload.
CheckImageQuality ==
  /\ checked < NumUploads
  /\ uploaded_file' = Upload(checked)
  /\ quality' = check_image_quality(uploaded_file')
  /\ checked' = checked + 1
  /\ warnings_seen' = warnings_seen \cup set(quality'.result.warnings)
  /\ UNCHANGED <<files, rulesVars, selected_option_int, image_bytes, results, first_results,
                 certVars>>

NextQuality == CheckImageQuality

SpecQuality == InitQuality /\ [][NextQuality]_vars

\* C8: check_image_quality warns about format, resolution, aspect ratio and file size:
\* the format warning exactly for a format other than PNG, JPEG, JPG, the resolution
\* warning exactly for a width below 800 or a height below 600, the size warning
\* exactly above 5000 KB, no warning for an upload that violates none of these, and an
\* aspect-ratio warning for some upload.
C8_WarnsOnAllFourChecks ==
  /\ quality # None =>
       LET warnings == set(quality.result.warnings)
           bad_format == uploaded_file.format \notin {"PNG", "JPEG", "JPG"}
           low_resolution == uploaded_file.width < 800 \/ uploaded_file.height < 600
           large == uploaded_file.bytes > 5000 * 1024
       IN /\ UnsupportedFormatWarning \in warnings <=> bad_format
          /\ LowResolutionWarning \in warnings <=> low_resolution
          /\ LargeFileWarning \in warnings <=> large
          /\ (~bad_format /\ ~low_resolution /\ ~large) => quality.result.warnings = <<>>
  /\ checked = NumUploads =>
       \E w \in warnings_seen :
         w \notin {UnsupportedFormatWarning, LowResolutionWarning, LargeFileWarning}
====
